---- MODULE Spec2Model ----
(***************************************************************************)
(* mastercal_sync: the reconciliation engine of gcal_sync.py               *)
(* (upsert_events and its helpers), the identity functions it uses, and    *)
(* the line-oriented schedule parser of parser_local.py.                   *)
(*                                                                         *)
(* Conventions.  Python's None and a missing dict key are the empty        *)
(* sequence <<>>; a present value x of an Optional is <<x>>, except a time *)
(* of day, which is the pair <<h, m>> itself.  A calendar date is its day  *)
(* ordinal (an integer), so "+ timedelta(days=1)" is + 1; the ISO string   *)
(* of a date is the ordinal again, because the code only compares such     *)
(* strings for equality.  A timestamp in the fixed zone Asia/Singapore is  *)
(* <<day, h, m>>.  A string the code normalises is a sequence of           *)
(* one-character strings.  sha256(...)[:16] is taken to be collision-free: *)
(* a hash is the key it was computed from.                                 *)
(***************************************************************************)
EXTENDS Integers, Sequences, FiniteSets, TLC

VARIABLES
    remote,         \* the calendar service's records (the system of record)
    nextId,         \* the id the service gives the next inserted record
    events,         \* upsert_events: parsed_calendar_dump["events"]
    idx,            \* upsert_events: i, the 1-based position in events
    pc,             \* upsert_events: the remote call it is about to make
    pending,        \* upsert_events: the mutation chosen for events[idx]
    legacy_cache,   \* upsert_events: legacy_cache
    legacy_used,    \* upsert_events: legacy_used_event_ids
    calls,          \* history: the remote calls of the current pass, in order
    pass,           \* history: "first" or "rerun"
    prev,           \* history: the previous pass's batch and how it ended
    owned,          \* history: (pass, event key, record id) inserted or claimed
    races,          \* history: the number of races with another writer so far
    id_chat,        \* identity resolver: the tenant (chat_id)
    id_events,      \* identity resolver: the batch whose identities are computed
    id_uids,        \* identity resolver: the current identity of each event
    id_prev,        \* history: the batch and identities before the last edit
    mastercal_text, \* parse_mastercal_local: the text, as its lines
    strict,         \* parse_mastercal_local: MASTER_CAL_STRICT == "1"
    today_year,     \* parse_mastercal_local: datetime.now(SGT).date().year
    line_no,        \* parse_mastercal_local: the number of lines consumed
    year_ctx,       \* parse_mastercal_local: year_ctx
    parsed,         \* parse_mastercal_local: events
    errors,         \* parse_mastercal_local: errors, as the failing line numbers
    parse_pc,       \* parse_mastercal_local: "loop", "break", or how it ended
    pl_ev,          \* _event_body: the event (ev)
    pl_body,        \* _event_body: the payload it returned, once rendered
    pl_read,        \* the dates _item_start_date / _item_end_date_inclusive read back
    lk_matches,     \* the service's records under the looked-up iCalUID, in its order
    lk_result       \* _find_by_icaluid: the item it returned, once called

engVars == <<remote, nextId, events, idx, pc, pending, legacy_cache,
             legacy_used, calls, pass, prev, owned, races>>

identVars == <<id_chat, id_events, id_uids, id_prev>>

parseVars == <<mastercal_text, strict, today_year, line_no, year_ctx, parsed,
               errors, parse_pc>>

payloadVars == <<pl_ev, pl_body, pl_read>>

lookupVars == <<lk_matches, lk_result>>

vars == <<engVars, identVars, parseVars, payloadVars, lookupVars>>

(***************************************************************************)
(* Bounds of the model.                                                    *)
(***************************************************************************)
MaxBatch == 2

MaxRaces == 1

MaxLines == 3

MaxMatches == 6

None == <<>>

Some(x) == <<x>>

\* The tenant the engine runs for, and the tenants identities are compared over.
ChatIds == {"chatA", "chatB"}

EngineChat == "chatA"

\* Day ordinals of the reconciliation scenarios.
Dates == {1, 2}

\* Raw summaries: "A" and "a " normalise to the same title.
Summaries == {<<"A">>, <<"a", " ">>}

\* (start_time, end_time) of a batch's events: all-day; start only, late in the day.
TimeShapes == {<<None, None>>, <<<<23, 30>>, None>>}

(***************************************************************************)
(* gcal_sync.py: pure helpers                                              *)
(***************************************************************************)
IsSpace(c) == c = " "

Lower(c) == IF c = "A" THEN "a" ELSE IF c = "B" THEN "b" ELSE c

RECURSIVE LStrip(_)
LStrip(s) == IF s # <<>> /\ IsSpace(Head(s)) THEN LStrip(Tail(s)) ELSE s

RECURSIVE RStrip(_)
RStrip(s) ==
    IF s # <<>> /\ IsSpace(s[Len(s)]) THEN RStrip(SubSeq(s, 1, Len(s) - 1)) ELSE s

\* re.sub(r"\s+", " ", s): every run of whitespace becomes one space.
RECURSIVE CollapseWs(_)
CollapseWs(s) ==
    IF s = <<>> THEN <<>>
    ELSE IF IsSpace(Head(s))
         THEN <<" ">> \o CollapseWs(LStrip(s))
         ELSE <<Head(s)>> \o CollapseWs(Tail(s))

_norm_summary(s) ==
    CollapseWs([k \in 1..Len(RStrip(LStrip(s))) |-> Lower(RStrip(LStrip(s))[k])])

\* json.dumps(key, sort_keys=True): the key's items in key order.
legacy_uid(chat, ev) ==
    <<chat, << <<"summary", _norm_summary(ev.summary)>> >> >>

\* event_uid with end_date left out of the collision key.
event_uid_no_end_date(chat, ev, collide) ==
    IF ~collide
    THEN legacy_uid(chat, ev)
    ELSE <<chat, << <<"start_date", ev.start_date>>,
                    <<"summary", _norm_summary(ev.summary)>> >> >>

\* event_uid that ignores the collide flag and always keys on the dates.
event_uid_always_dated(chat, ev, collide) ==
    <<chat, << <<"end_date", ev.end_date>>,
               <<"start_date", ev.start_date>>,
               <<"summary", _norm_summary(ev.summary)>> >> >>

event_uid(chat, ev, collide) ==
    IF ~collide
    THEN legacy_uid(chat, ev)
    ELSE <<chat, << <<"end_date", ev.end_date>>,
                    <<"start_date", ev.start_date>>,
                    <<"summary", _norm_summary(ev.summary)>> >> >>

collision_summaries(evs) ==
    {s \in {_norm_summary(evs[k].summary) : k \in 1..Len(evs)} :
        Cardinality({k \in 1..Len(evs) : _norm_summary(evs[k].summary) = s}) > 1}

\* One hour later on the clock, without carrying into the next day.
PlusOneHour_same_day(dt) == <<dt[1], (dt[2] + 1) % 24, dt[3]>>

\* st + timedelta(hours=1) on a timestamp <<day, h, m>>.
PlusOneHour(dt) ==
    IF dt[2] + 1 >= 24 THEN <<dt[1] + 1, dt[2] + 1 - 24, dt[3]>>
    ELSE <<dt[1], dt[2] + 1, dt[3]>>

\* datetime.combine(d, _parse_hm(t), tzinfo=SGT)
Combine(d, t) == <<d, t[1], t[2]>>

_event_body(ev, uid) ==
    LET sd == ev.start_date
        ed_incl == ev.end_date
        st == Combine(sd, ev.start_time)
        et == IF ev.end_time = None THEN PlusOneHour(st)
              ELSE Combine(ed_incl, ev.end_time)
    IN  IF ev.start_time = None
        THEN [summary |-> ev.summary, iCalUID |-> uid,
              start |-> [date |-> Some(sd), dateTime |-> None],
              end |-> [date |-> Some(ed_incl + 1), dateTime |-> None]]
        ELSE [summary |-> ev.summary, iCalUID |-> uid,
              start |-> [date |-> None, dateTime |-> Some(st)],
              end |-> [date |-> None, dateTime |-> Some(et)]]

\* An item's start date: the date if it has one, else the timestamp's day.
_item_start_date(item) ==
    IF item.start.date # None THEN item.start.date
    ELSE IF item.start.dateTime # None THEN Some(item.start.dateTime[1][1])
    ELSE None

\* The end date as stored, without the step back from the exclusive end.
_item_end_date_as_stored(item) ==
    IF item.end.date # None THEN item.end.date
    ELSE IF item.end.dateTime # None THEN Some(item.end.dateTime[1][1])
    ELSE None

\* An item's inclusive end date: end.date is exclusive, a timestamp is not.
_item_end_date_inclusive(item) ==
    IF item.end.date # None THEN Some(item.end.date[1] - 1)
    ELSE IF item.end.dateTime # None THEN Some(item.end.dateTime[1][1])
    ELSE None

\* The loop of _find_by_icaluid over the listed items: the first item that is
\* not cancelled, else the first item, else None.
_find_by_icaluid(items) ==
    LET live == {k \in 1..Len(items) : items[k].status # "cancelled"}
    IN  IF live # {} THEN Some(items[CHOOSE k \in live : \A j \in live : k <= j])
        ELSE IF items # <<>> THEN Some(items[1])
        ELSE None

\* _patch_revive that leaves iCalUID in the patch.
_patch_revive_with_uid(body) ==
    [k \in DOMAIN body \cup {"status"} |->
        IF k = "status" THEN "confirmed" ELSE body[k]]

\* _patch_revive without the forced status.
_patch_revive_unconfirmed(body) ==
    [k \in DOMAIN body \ {"iCalUID"} |-> body[k]]

\* _patch_revive: the body without iCalUID, with status confirmed.
_patch_revive(body) ==
    [k \in (DOMAIN body \ {"iCalUID"}) \cup {"status"} |->
        IF k = "status" THEN "confirmed" ELSE body[k]]

(***************************************************************************)
(* The calendar service, as upsert_events calls it.  A record is           *)
(* [id, iCalUID, status, summary, start, end].                             *)
(***************************************************************************)
Perms(S) ==
    {f \in [1..Cardinality(S) -> S] : \A a, b \in 1..Cardinality(S) : f[a] = f[b] => a = b}

\* maxResults=5 of the list call; the code reads no further page.
maxResults == 5

\* The one page the list call returns of the matches seq.
Page(seq) == SubSeq(seq, 1, IF Len(seq) < maxResults THEN Len(seq) ELSE maxResults)

\* events().list(iCalUID=uid, showDeleted=True, maxResults=5): the records under
\* uid, cancelled ones included, in an order the service chooses.
SvcList(uid) == {Page(q) : q \in Perms({r \in remote : r.iCalUID = uid})}

\* events().insert(body): HTTP 409 when a record already has the iCalUID.
SvcConflict(body) == \E r \in remote : r.iCalUID = body.iCalUID

SvcInsert(body) ==
    remote \cup {[id |-> nextId, iCalUID |-> body.iCalUID, status |-> "confirmed",
                  summary |-> body.summary, start |-> body.start, end |-> body.end]}

\* events().update(eventId=id, body): the record takes the body's fields.
SvcUpdate(id, body) ==
    {IF r.id = id
     THEN [r EXCEPT !.iCalUID = body.iCalUID, !.summary = body.summary,
                    !.start = body.start, !.end = body.end]
     ELSE r : r \in remote}

\* events().patch(eventId=id, body): only the fields the patch names change.
SvcPatch(id, patch_body) ==
    {IF r.id = id
     THEN [k \in DOMAIN r |-> IF k \in DOMAIN patch_body THEN patch_body[k] ELSE r[k]]
     ELSE r : r \in remote}

(***************************************************************************)
(* Inputs: the parsed events a batch is made of, and the calendars a first *)
(* pass can meet.                                                          *)
(***************************************************************************)
EventUniverse ==
    {[summary |-> s, start_date |-> sd, start_time |-> t[1],
      end_date |-> ed, end_time |-> t[2]] :
        s \in Summaries, sd \in Dates, ed \in Dates, t \in TimeShapes}

ValidEvents == {e \in EventUniverse : e.start_date <= e.end_date}

Batches == UNION {[1..n -> ValidEvents] : n \in 0..MaxBatch}

\* A record an earlier run (of the summary-only version) left under the legacy
\* identity of an all-day event; the user may have deleted it since (cancelled),
\* and a record may carry no end.
InitRecords ==
    UNION {{[id |-> 1, iCalUID |-> b.iCalUID, status |-> st, summary |-> b.summary,
             start |-> b.start, end |-> en] :
                st \in {"confirmed", "cancelled"},
                en \in {b.end, [date |-> None, dateTime |-> None]}} :
        b \in {_event_body(e, legacy_uid(EngineChat, e)) :
                  e \in {x \in ValidEvents : x.start_time = None /\ x.summary = <<"A">>}}}

\* The batch of a re-run: the same message, or the message with one line
\* removed or one line added at its end.
NextBatches(b) ==
    {b} \cup {SubSeq(b, 1, k - 1) \o SubSeq(b, k + 1, Len(b)) : k \in 1..Len(b)}
        \cup (IF Len(b) < MaxBatch THEN {Append(b, e) : e \in ValidEvents} ELSE {})

NoPending == [op |-> "none", id |-> 0, body |-> None, legacy |-> FALSE]

EventKey(ev) == <<_norm_summary(ev.summary), ev.start_date, ev.end_date>>

\* A remote call of the pass: the event it is for, the operation, the identity
\* looked up or written, the record id, the outcome, and whether it applies a
\* legacy claim.
Call(op, uid, id, res) ==
    [ev |-> idx, op |-> op, uid |-> uid, id |-> id, res |-> res,
     legacy |-> pc = "mutate" /\ pending.legacy]

(***************************************************************************)
(* upsert_events                                                           *)
(***************************************************************************)
Ev == events[idx]

SNorm == _norm_summary(Ev.summary)

Collide == SNorm \in collision_summaries(events)

Uid == event_uid(EngineChat, Ev, Collide)

Body == _event_body(Ev, Uid)

\* The legacy body written under the collision-safe identity instead.
LegacyBody_current_uid(ev) == _event_body(ev, event_uid(EngineChat, ev, TRUE))

\* Lines 231-232: the body written to a claimed record keeps the legacy UID.
LegacyBody(ev) == _event_body(ev, legacy_uid(EngineChat, ev))

\* The claim test without the used-set condition.
LegacyMatches_reclaim(it, used_ids, ev) ==
    LET legacy_sd == _item_start_date(it)
        legacy_ed == _item_end_date_inclusive(it)
    IN  legacy_sd = Some(ev.start_date)
            /\ (legacy_ed = None \/ legacy_ed = Some(ev.end_date))

\* Lines 220-227: the legacy item is unclaimed and has the event's dates.
LegacyMatches(it, used_ids, ev) ==
    LET legacy_sd == _item_start_date(it)
        legacy_ed == _item_end_date_inclusive(it)
        want_sd == Some(ev.start_date)
        want_ed == Some(ev.end_date)
    IN  it.id \notin used_ids /\ legacy_sd = want_sd
            /\ (legacy_ed = None \/ legacy_ed = want_ed)

\* The legacy decision that updates a claimed record whatever its status.
LegacyDecision_always_update(ev, cache, used) ==
    LET s_norm == _norm_summary(ev.summary)
        legacy_item == cache[s_norm]
    IN  IF legacy_item = None
        THEN [claim |-> FALSE, used |-> used, pending |-> NoPending]
        ELSE
        LET it == legacy_item[1]
            used0 == IF s_norm \in DOMAIN used THEN used
                     ELSE [k \in DOMAIN used \cup {s_norm} |->
                              IF k = s_norm THEN {} ELSE used[k]]
        IN  IF LegacyMatches(it, used0[s_norm], ev)
            THEN [claim |-> TRUE,
                  used |-> [used0 EXCEPT ![s_norm] = @ \cup {it.id}],
                  pending |-> [op |-> "update",
                               id |-> it.id,
                               body |-> Some(LegacyBody(ev)),
                               legacy |-> TRUE]]
            ELSE [claim |-> FALSE, used |-> used0, pending |-> NoPending]

\* Lines 215-242: the decision on the cached legacy item, and the changes to
\* legacy_used_event_ids: [claim, used, pending].
LegacyDecision(ev, cache, used) ==
    LET s_norm == _norm_summary(ev.summary)
        legacy_item == cache[s_norm]
    IN  IF legacy_item = None
        THEN [claim |-> FALSE, used |-> used, pending |-> NoPending]
        ELSE
        LET it == legacy_item[1]
            used0 == IF s_norm \in DOMAIN used THEN used
                     ELSE [k \in DOMAIN used \cup {s_norm} |->
                              IF k = s_norm THEN {} ELSE used[k]]
        IN  IF LegacyMatches(it, used0[s_norm], ev)
            THEN [claim |-> TRUE,
                  used |-> [used0 EXCEPT ![s_norm] = @ \cup {it.id}],
                  pending |-> [op |-> IF it.status = "cancelled" THEN "patch" ELSE "update",
                               id |-> it.id,
                               body |-> Some(LegacyBody(ev)),
                               legacy |-> TRUE]]
            ELSE [claim |-> FALSE, used |-> used0, pending |-> NoPending]

\* After the lookups of a colliding event: claim the legacy record or insert.
AfterLegacy(cache) ==
    LET d == LegacyDecision(Ev, cache, legacy_used)
    IN  /\ legacy_used' = d.used
        /\ IF d.claim
           THEN pc' = "mutate" /\ pending' = d.pending
           ELSE pc' = "insert" /\ pending' = [NoPending EXCEPT !.op = "insert",
                                                            !.body = Some(Body)]

\* The loop moves to the next event, or the pass is done.
Advance ==
    /\ pending' = NoPending
    /\ IF idx < Len(events) THEN idx' = idx + 1 /\ pc' = "find"
       ELSE idx' = idx /\ pc' = "done"

\* Lines 175-184: a pass starts on a batch.
StartPass ==
    /\ UNCHANGED <<identVars, parseVars, payloadVars, lookupVars>>
    /\ \/ pc = "idle" /\ pass = "first" /\ pass' = pass /\ prev' = prev
          /\ events' \in Batches
       \/ pc = "done" /\ pass = "first" /\ races = 0 /\ pass' = "rerun"
          /\ prev' = [events |-> events, completed |-> TRUE]
          /\ events' \in NextBatches(events)
    /\ idx' = 1
    /\ pc' = IF events' = <<>> THEN "done" ELSE "find"
    /\ pending' = NoPending
    /\ legacy_cache' = <<>>
    /\ legacy_used' = <<>>
    /\ calls' = <<>>
    /\ UNCHANGED <<remote, nextId, owned, races>>

\* Lines 187-205 and 208-215: the lookup by current identity and the branch on it.
Find ==
    /\ UNCHANGED <<identVars, parseVars, payloadVars, lookupVars>>
    /\ pc = "find"
    /\ \E items \in SvcList(Uid) :
        LET existing_item == _find_by_icaluid(items)
        IN  /\ calls' = Append(calls, Call("list", Uid, 0,
                            IF existing_item = None THEN "none" ELSE "found"))
            /\ IF existing_item # None
               THEN /\ pc' = "mutate"
                    /\ pending' = [op |-> IF existing_item[1].status = "cancelled"
                                          THEN "patch" ELSE "update",
                                   id |-> existing_item[1].id,
                                   body |-> Some(Body), legacy |-> FALSE]
                    /\ UNCHANGED legacy_used
               ELSE IF Collide
               THEN IF SNorm \notin DOMAIN legacy_cache
                    THEN pc' = "legacy_find" /\ UNCHANGED <<pending, legacy_used>>
                    ELSE AfterLegacy(legacy_cache)
               ELSE /\ pc' = "insert"
                    /\ pending' = [NoPending EXCEPT !.op = "insert", !.body = Some(Body)]
                    /\ UNCHANGED legacy_used
    /\ UNCHANGED <<remote, nextId, events, idx, legacy_cache, pass, prev, owned, races>>

\* LegacyFind that caches only a lookup that found a record.
LegacyFind_cache_hits_only ==
    /\ UNCHANGED <<identVars, parseVars, payloadVars, lookupVars>>
    /\ pc = "legacy_find"
    /\ \E items \in SvcList(legacy_uid(EngineChat, Ev)) :
        LET legacy_item == _find_by_icaluid(items)
            cache == [k \in DOMAIN legacy_cache \cup {SNorm} |->
                         IF k = SNorm THEN legacy_item ELSE legacy_cache[k]]
        IN  /\ legacy_cache' = IF legacy_item = None THEN legacy_cache ELSE cache
            /\ calls' = Append(calls, Call("list", legacy_uid(EngineChat, Ev), 0,
                            IF legacy_item = None THEN "none" ELSE "found"))
            /\ AfterLegacy(cache)
    /\ UNCHANGED <<remote, nextId, events, idx, pass, prev, owned, races>>

\* Lines 209-213 then 215-242: the legacy lookup, cached for the summary.
LegacyFind ==
    /\ UNCHANGED <<identVars, parseVars, payloadVars, lookupVars>>
    /\ pc = "legacy_find"
    /\ \E items \in SvcList(legacy_uid(EngineChat, Ev)) :
        LET legacy_item == _find_by_icaluid(items)
            cache == [k \in DOMAIN legacy_cache \cup {SNorm} |->
                         IF k = SNorm THEN legacy_item ELSE legacy_cache[k]]
        IN  /\ legacy_cache' = cache
            /\ calls' = Append(calls, Call("list", legacy_uid(EngineChat, Ev), 0,
                            IF legacy_item = None THEN "none" ELSE "found"))
            /\ AfterLegacy(cache)
    /\ UNCHANGED <<remote, nextId, events, idx, pass, prev, owned, races>>

\* Mutate without the continue of lines 205 and 242: the event goes on to insert.
Mutate_no_continue ==
    /\ UNCHANGED <<identVars, parseVars, payloadVars, lookupVars>>
    /\ pc = "mutate"
    /\ remote' = IF pending.op = "patch"
                 THEN SvcPatch(pending.id, _patch_revive(pending.body[1]))
                 ELSE SvcUpdate(pending.id, pending.body[1])
    /\ calls' = Append(calls, Call(pending.op, pending.body[1].iCalUID, pending.id, "ok"))
    /\ owned' = IF pending.legacy
                THEN owned \cup {[pass |-> pass, key |-> EventKey(Ev), id |-> pending.id]}
                ELSE owned
    /\ pc' = "insert"
    /\ pending' = [NoPending EXCEPT !.op = "insert", !.body = Some(Body)]
    /\ UNCHANGED <<nextId, events, idx, legacy_cache, legacy_used, pass, prev, races>>

\* Lines 199-205, 235-242, 255-259: the update or the revive-patch chosen.
Mutate ==
    /\ UNCHANGED <<identVars, parseVars, payloadVars, lookupVars>>
    /\ pc = "mutate"
    /\ remote' = IF pending.op = "patch"
                 THEN SvcPatch(pending.id, _patch_revive(pending.body[1]))
                 ELSE SvcUpdate(pending.id, pending.body[1])
    /\ calls' = Append(calls, Call(pending.op, pending.body[1].iCalUID, pending.id, "ok"))
    /\ owned' = IF pending.legacy
                THEN owned \cup {[pass |-> pass, key |-> EventKey(Ev), id |-> pending.id]}
                ELSE owned
    /\ Advance
    /\ UNCHANGED <<nextId, events, legacy_cache, legacy_used, pass, prev, races>>

\* Lines 245-248: the insert succeeds.
Insert ==
    /\ UNCHANGED <<identVars, parseVars, payloadVars, lookupVars>>
    /\ pc = "insert"
    /\ ~SvcConflict(pending.body[1])
    /\ remote' = SvcInsert(pending.body[1])
    /\ nextId' = nextId + 1
    /\ calls' = Append(calls, Call("insert", pending.body[1].iCalUID, nextId, "ok"))
    /\ owned' = owned \cup {[pass |-> pass, key |-> EventKey(Ev), id |-> nextId]}
    /\ Advance
    /\ UNCHANGED <<events, legacy_cache, legacy_used, pass, prev, races>>

\* Lines 249-252: the insert is rejected with 409; the handler looks up again.
InsertConflict ==
    /\ UNCHANGED <<identVars, parseVars, payloadVars, lookupVars>>
    /\ pc = "insert"
    /\ SvcConflict(pending.body[1])
    /\ calls' = Append(calls, Call("insert", pending.body[1].iCalUID, 0, "conflict"))
    /\ pc' = "refind"
    /\ UNCHANGED <<remote, nextId, events, idx, pending, legacy_cache, legacy_used,
                   pass, prev, owned, races>>

\* ReFind where a second lookup that finds nothing is swallowed and the loop goes on.
ReFind_swallow ==
    /\ UNCHANGED <<identVars, parseVars, payloadVars, lookupVars>>
    /\ pc = "refind"
    /\ \E items \in SvcList(Uid) :
        LET existing_item2 == _find_by_icaluid(items)
        IN  /\ calls' = Append(calls, Call("list", Uid, 0,
                            IF existing_item2 = None THEN "none" ELSE "found"))
            /\ IF existing_item2 # None
               THEN /\ pc' = "mutate" /\ idx' = idx
                    /\ pending' = [op |-> IF existing_item2[1].status = "cancelled"
                                          THEN "patch" ELSE "update",
                                   id |-> existing_item2[1].id,
                                   body |-> Some(Body), legacy |-> FALSE]
               ELSE Advance
    /\ UNCHANGED <<remote, nextId, events, legacy_cache, legacy_used,
                   pass, prev, owned, races>>

\* Lines 252-261: the second lookup; update or revive what it finds, else raise.
ReFind ==
    /\ UNCHANGED <<identVars, parseVars, payloadVars, lookupVars>>
    /\ pc = "refind"
    /\ \E items \in SvcList(Uid) :
        LET existing_item2 == _find_by_icaluid(items)
        IN  /\ calls' = Append(calls, Call("list", Uid, 0,
                            IF existing_item2 = None THEN "none" ELSE "found"))
            /\ IF existing_item2 # None
               THEN /\ pc' = "mutate"
                    /\ pending' = [op |-> IF existing_item2[1].status = "cancelled"
                                          THEN "patch" ELSE "update",
                                   id |-> existing_item2[1].id,
                                   body |-> Some(Body), legacy |-> FALSE]
               ELSE pc' = "aborted" /\ UNCHANGED pending
    /\ UNCHANGED <<remote, nextId, events, idx, legacy_cache, legacy_used,
                   pass, prev, owned, races>>

\* RemoteFail where the failure is logged and the loop goes on with the next event.
RemoteFail_swallow ==
    /\ UNCHANGED <<identVars, parseVars, payloadVars, lookupVars>>
    /\ pc \in {"find", "legacy_find", "mutate", "insert", "refind"}
    /\ calls' = Append(calls,
            Call(IF pc \in {"mutate", "insert"} THEN pending.op ELSE "list",
                 IF pc = "legacy_find" THEN legacy_uid(EngineChat, Ev)
                 ELSE IF pc = "mutate" THEN pending.body[1].iCalUID ELSE Uid,
                 pending.id, "error"))
    /\ Advance
    /\ UNCHANGED <<remote, nextId, events, legacy_cache, legacy_used,
                   pass, prev, owned, races>>

\* Any remote call fails for another reason (an HttpError that is not a 409 on
\* insert, or any other exception): nothing catches it, the pass ends.
RemoteFail ==
    /\ UNCHANGED <<identVars, parseVars, payloadVars, lookupVars>>
    /\ pc \in {"find", "legacy_find", "mutate", "insert", "refind"}
    /\ calls' = Append(calls,
            Call(IF pc \in {"mutate", "insert"} THEN pending.op ELSE "list",
                 IF pc = "legacy_find" THEN legacy_uid(EngineChat, Ev)
                 ELSE IF pc = "mutate" THEN pending.body[1].iCalUID ELSE Uid,
                 pending.id, "error"))
    /\ pc' = "aborted"
    /\ UNCHANGED <<remote, nextId, events, idx, pending, legacy_cache, legacy_used,
                   pass, prev, owned, races>>

(***************************************************************************)
(* Another writer of the same calendar, racing the pass on the identity of *)
(* the event in hand: it inserts a record under that identity between the  *)
(* engine's lookup and insert, and may remove it for good before the       *)
(* engine looks again.                                                     *)
(***************************************************************************)
ExtInsert ==
    /\ UNCHANGED <<identVars, parseVars, payloadVars, lookupVars>>
    /\ races < MaxRaces
    /\ pc = "insert"
    /\ ~SvcConflict(Body)
    /\ \E st \in {"confirmed", "cancelled"} :
        remote' = {[r EXCEPT !.status = st] : r \in SvcInsert(Body) \ remote} \cup remote
    /\ nextId' = nextId + 1
    /\ races' = races + 1
    /\ UNCHANGED <<events, idx, pc, pending, legacy_cache, legacy_used, calls,
                   pass, prev, owned>>

ExtPurge ==
    /\ UNCHANGED <<identVars, parseVars, payloadVars, lookupVars>>
    /\ races > 0
    /\ pc = "refind"
    /\ \E r \in remote :
        /\ r.iCalUID = Uid
        /\ remote' = remote \ {r}
    /\ UNCHANGED <<races, nextId, events, idx, pc, pending, legacy_cache, legacy_used, calls,
                   pass, prev, owned>>

(***************************************************************************)
(* The identity resolver on its own: upsert_events lines 178 and 187-190    *)
(* compute the colliders of a batch and each event's current identity.     *)
(***************************************************************************)
\* Titles as typed: three spellings of "a", two of "a b", one of "b".
IdentSummaries ==
    {<<"A">>, <<"a">>, <<" ", "a", " ">>, <<"a", " ", " ", "b">>, <<"A", " ", "B">>, <<"b">>}

IdentEvents ==
    {[summary |-> s, start_date |-> sd, start_time |-> None,
      end_date |-> ed, end_time |-> None] :
        s \in IdentSummaries, sd \in Dates, ed \in Dates}

IdentBatches == UNION {[1..n -> IdentEvents] : n \in 1..MaxBatch}

\* Lines 178, 187-190: the current identity of every event of the batch.
ResolveAll(chat, evs) ==
    [k \in 1..Len(evs) |->
        event_uid(chat, evs[k],
                  _norm_summary(evs[k].summary) \in collision_summaries(evs))]

Resolve ==
    /\ id_uids = <<>>
    /\ id_uids' = ResolveAll(id_chat, id_events)
    /\ UNCHANGED <<id_chat, id_events, id_prev>>
    /\ UNCHANGED <<engVars, parseVars, payloadVars, lookupVars>>

\* The same line is parsed again, possibly retyped (case, spacing) or with
\* other dates, and the batch is resolved again.
Reparse ==
    /\ id_uids # <<>>
    /\ id_prev.events = <<>>
    /\ \E k \in 1..Len(id_events), e \in IdentEvents :
        /\ _norm_summary(e.summary) = _norm_summary(id_events[k].summary)
        /\ id_events' = [id_events EXCEPT ![k] = e]
        /\ id_uids' = ResolveAll(id_chat, id_events')
    /\ id_prev' = [events |-> id_events, uids |-> id_uids]
    /\ UNCHANGED id_chat
    /\ UNCHANGED <<engVars, parseVars, payloadVars, lookupVars>>

IdentIdle ==
    /\ id_chat = EngineChat
    /\ id_events = <<>>
    /\ id_uids = <<>>
    /\ id_prev = [events |-> <<>>, uids |-> <<>>]

IdentInit ==
    /\ id_chat \in ChatIds
    /\ id_events \in IdentBatches
    /\ id_uids = <<>>
    /\ id_prev = [events |-> <<>>, uids |-> <<>>]

(***************************************************************************)
(* parser_local.py.  A line is the sequence of its lexemes, as the regular *)
(* expressions of the module cut it: a number (its value n, its digit      *)
(* count w, minutes mi after ":" or "." or -1, and an am/pm marker ap or   *)
(* ""), a three-letter month word, "-", "@", a parenthetical, the          *)
(* "#MasterCal" header word, or any other word.                            *)
(***************************************************************************)
Tok(t, str, n, w, mi, ap) == [t |-> t, s |-> str, n |-> n, w |-> w, mi |-> mi, ap |-> ap]

NumTok(n, w) == Tok("num", "", n, w, -1, "")

TimeTok(n, w, mi, ap) == Tok("num", "", n, w, mi, ap)

Mon(str) == Tok("mon", str, 0, 0, -1, "")

Word(str) == Tok("word", str, 0, 0, -1, "")

Dash == Tok("dash", "-", 0, 0, -1, "")

At == Tok("at", "@", 0, 0, -1, "")

Paren == Tok("paren", "(Fri)", 0, 0, -1, "")

Hdr == Tok("hdr", "#MasterCal", 0, 0, -1, "")

\* str.lower() on the month words of the model.
LowerWord(str) ==
    CASE str = "Jan" -> "jan" [] str = "Feb" -> "feb" [] str = "FEB" -> "feb"
      [] str = "Mar" -> "mar" [] str = "Dec" -> "dec" [] str = "DEC" -> "dec"
      [] OTHER -> str

\* _MONTHS.get(...): 0 stands for a missing key.
_MONTHS(str) ==
    CASE str = "jan" -> 1 [] str = "feb" -> 2 [] str = "mar" -> 3 [] str = "apr" -> 4
      [] str = "may" -> 5 [] str = "jun" -> 6 [] str = "jul" -> 7 [] str = "aug" -> 8
      [] str = "sep" -> 9 [] str = "oct" -> 10 [] str = "nov" -> 11 [] str = "dec" -> 12
      [] OTHER -> 0

\* _mon: the month number; 0 stands for ValueError.
_mon(mon3) == _MONTHS(LowerWord(mon3))

IsLeap(y) == (y % 4 = 0 /\ y % 100 # 0) \/ y % 400 = 0

DaysInMonth(y, m) ==
    IF m = 2 THEN (IF IsLeap(y) THEN 29 ELSE 28)
    ELSE IF m \in {4, 6, 9, 11} THEN 30 ELSE 31

RECURSIVE DaysBeforeMonth(_, _)
DaysBeforeMonth(y, m) ==
    IF m = 1 THEN 0 ELSE DaysBeforeMonth(y, m - 1) + DaysInMonth(y, m - 1)

\* date(y, m, d).toordinal()
Ordinal(y, m, d) ==
    365 * (y - 1) + ((y - 1) \div 4) - ((y - 1) \div 100) + ((y - 1) \div 400)
        + DaysBeforeMonth(y, m) + d

\* _to_date: date(y, _mon(mon3), d); ok is FALSE where it raises ValueError.
_to_date(y, d, mon3) ==
    LET mm == _mon(mon3)
    IN  IF mm = 0 \/ y < 1 \/ y > 9999 \/ d < 1 \/ d > DaysInMonth(y, mm)
        THEN [ok |-> FALSE, date |-> 0]
        ELSE [ok |-> TRUE, date |-> Ordinal(y, mm, d)]

\* _norm_hhmm on a time lexeme: ok is FALSE where it raises ValueError.
_norm_hhmm(tok) ==
    LET h0 == tok.n
        mi == IF tok.mi = -1 THEN 0 ELSE tok.mi
        h1 == IF h0 = 12 THEN 0 ELSE h0
        h == IF tok.ap = "pm" THEN h1 + 12 ELSE h1
    IN  IF ~(0 <= h /\ h <= 23 /\ 0 <= mi /\ mi <= 59)
        THEN [ok |-> FALSE, t |-> None]
        ELSE [ok |-> TRUE, t |-> <<h, mi>>]

\* _TIME_RE matches at a number that carries am or pm.
IsTime(tok) == tok.t = "num" /\ tok.ap # ""

\* _TIME_RANGE_RE matches at k: a time with am/pm, "-", a number with or
\* without am/pm.
RangeAt(base, k) ==
    /\ k + 2 <= Len(base)
    /\ IsTime(base[k])
    /\ base[k + 1].t = "dash"
    /\ base[k + 2].t = "num"

Without(seq, a, b) == SubSeq(seq, 1, a - 1) \o SubSeq(seq, b + 1, Len(seq))

\* _strip_time_tokens: [raised, summary, st, et]; raised where ValueError
\* leaves the function.
_strip_time_tokens(base) ==
    LET ranges == {k \in 1..Len(base) : RangeAt(base, k)}
        singles == {k \in 1..Len(base) : IsTime(base[k])}
    IN  IF ranges # {}
        THEN LET k == CHOOSE a \in ranges : \A b \in ranges : a <= b
                 t1 == base[k]
                 t2 == IF base[k + 2].ap = "" THEN [base[k + 2] EXCEPT !.ap = t1.ap]
                       ELSE base[k + 2]
                 st == _norm_hhmm(t1)
                 et == _norm_hhmm(t2)
             IN  IF ~st.ok \/ ~et.ok
                 THEN [raised |-> TRUE, summary |-> <<>>, st |-> None, et |-> None]
                 ELSE [raised |-> FALSE, summary |-> Without(base, k, k + 2),
                       st |-> st.t, et |-> et.t]
        ELSE IF singles # {}
        THEN LET k == CHOOSE a \in singles : \A b \in singles : a <= b
                 st == _norm_hhmm(base[k])
             IN  IF ~st.ok
                 THEN [raised |-> TRUE, summary |-> <<>>, st |-> None, et |-> None]
                 ELSE [raised |-> FALSE, summary |-> Without(base, k, k),
                       st |-> st.t, et |-> None]
        ELSE [raised |-> FALSE, summary |-> base, st |-> None, et |-> None]

\* _split_location: the first "@" splits base text and location.
_split_location(rest) ==
    LET ats == {k \in 1..Len(rest) : rest[k].t = "at"}
    IN  IF ats = {} THEN [base |-> rest, loc |-> None]
        ELSE LET k == CHOOSE a \in ats : \A b \in ats : a <= b
                 right == SubSeq(rest, k + 1, Len(rest))
             IN  [base |-> SubSeq(rest, 1, k - 1),
                  loc |-> IF right = <<>> THEN None ELSE Some(right)]

\* \d{1,2} directly before a month word.
IsDay(tok) == tok.t = "num" /\ tok.w \in {1, 2} /\ tok.mi = -1 /\ tok.ap = ""

\* re.fullmatch(r"\d{4}", line)
IsYearLine(line) ==
    Len(line) = 1 /\ line[1].t = "num" /\ line[1].w = 4 /\ line[1].mi = -1 /\ line[1].ap = ""

\* _DATE_RANGE_RE.match(line)
IsRangeLine(line) ==
    /\ Len(line) >= 5
    /\ IsDay(line[1]) /\ line[2].t = "mon" /\ line[3].t = "dash"
    /\ IsDay(line[4]) /\ line[5].t = "mon"

\* _DATE_RE.match(line)
IsDateLine(line) == Len(line) >= 2 /\ IsDay(line[1]) /\ line[2].t = "mon"

LineResult(kind, y, ev) == [kind |-> kind, year |-> y, ev |-> ev]

\* Lines 169-192 and 207-230: from the dates and the rest of the line to an
\* event, a diagnostic ("diag"), or an exception that nothing catches ("raise").
RestToEvent(sd, ed, rest, y) ==
    LET sl == _split_location(rest)
        tm == _strip_time_tokens(sl.base)
    IN  IF tm.raised THEN LineResult("raise", y, None)
        ELSE IF tm.summary = <<>> THEN LineResult("diag", y, None)
        ELSE LineResult("event", y,
                Some([summary |-> tm.summary, start_date |-> sd, start_time |-> tm.st,
                      end_date |-> ed, end_time |-> tm.et, location |-> sl.loc]))

\* Lines 138-236: one turn of the loop on a line, with the ambient year y.
LineParse(line, y) ==
    IF line = <<>> THEN LineResult("skip", y, None)
    ELSE IF line[1].t = "hdr" THEN LineResult("skip", y, None)
    ELSE IF IsYearLine(line) THEN LineResult("year", line[1].n, None)
    ELSE IF IsRangeLine(line)
    THEN LET sd == _to_date(y, line[1].n, line[2].s)
             ed == _to_date(y, line[4].n, line[5].s)
         IN  IF ~sd.ok \/ ~ed.ok THEN LineResult("diag", y, None)
             ELSE RestToEvent(sd.date, ed.date, SubSeq(line, 6, Len(line)), y)
    ELSE IF IsDateLine(line)
    THEN LET sd == _to_date(y, line[1].n, line[2].s)
             from == IF Len(line) >= 3 /\ line[3].t = "paren" THEN 4 ELSE 3
         IN  IF ~sd.ok THEN LineResult("diag", y, None)
             ELSE RestToEvent(sd.date, sd.date, SubSeq(line, from, Len(line)), y)
    ELSE LineResult("diag", y, None)

\* The lines a text is made of.
LineUniverse ==
    { <<>>,
      <<Hdr, Word("schedule")>>,
      <<NumTok(2024, 4)>>,
      <<NumTok(12, 2), Mon("Dec"), Paren, Word("Dinner")>>,
      <<NumTok(29, 2), Mon("Feb"), TimeTok(8, 1, -1, "am"), Word("Meeting")>>,
      <<NumTok(28, 2), Mon("Feb"), Dash, NumTok(3, 1), Mon("Mar"), Word("Retreat"),
        At, Word("Hotel")>>,
      <<NumTok(12, 2), Mon("Dec"), TimeTok(13, 2, -1, "pm"), Word("Meeting")>>,
      <<NumTok(12, 2), Mon("Xyz"), Word("Foo")>>,
      <<NumTok(12, 2), Mon("DEC"), TimeTok(7, 1, 30, "pm")>>,
      <<Word("hello")>>,
      <<NumTok(2023, 4)>>,
      <<NumTok(12, 2), Mon("Dec"), TimeTok(2, 1, -1, "pm"), Dash, TimeTok(6, 1, -1, "pm"),
        Word("Meeting")>>,
      <<NumTok(12, 2), Mon("Dec"), TimeTok(2, 1, -1, "pm"), Dash, NumTok(6, 1),
        Word("Meeting")>>,
      <<NumTok(12, 2), Mon("Dec"), NumTok(2, 1), Dash, TimeTok(6, 1, -1, "pm"),
        Word("Meeting")>>,
      <<NumTok(28, 2), Mon("Dec"), Dash, NumTok(3, 1), Mon("Jan"), Word("Trip")>>,
      <<NumTok(12, 2), Mon("Dec"), TimeTok(10, 2, -1, "pm"), Dash, TimeTok(2, 1, -1, "am"),
        Word("Party")>> }

Texts == UNION {[1..n -> LineUniverse] : n \in 0..MaxLines}

\* Lines 137-236: the loop consumes the next line.
ParseLine ==
    /\ parse_pc = "loop"
    /\ line_no < Len(mastercal_text)
    /\ LET i == line_no + 1
           o == LineParse(mastercal_text[i], year_ctx)
       IN  /\ line_no' = i
           /\ year_ctx' = o.year
           /\ parsed' = IF o.kind = "event" THEN Append(parsed, o.ev[1]) ELSE parsed
           /\ errors' = IF o.kind = "diag" THEN Append(errors, i) ELSE errors
           /\ parse_pc' = IF o.kind = "raise" THEN "raised"
                          ELSE IF o.kind = "diag" /\ strict THEN "break"
                          ELSE "loop"
    /\ UNCHANGED <<mastercal_text, strict, today_year>>
    /\ UNCHANGED <<engVars, identVars, payloadVars, lookupVars>>

\* Lines 238-246: after the loop, return the calendar or raise RuntimeError.
ParseEnd ==
    /\ \/ parse_pc = "loop" /\ line_no = Len(mastercal_text)
       \/ parse_pc = "break"
    /\ parse_pc' = IF errors # <<>> /\ strict THEN "failed" ELSE "returned"
    /\ UNCHANGED <<mastercal_text, strict, today_year, line_no, year_ctx, parsed, errors>>
    /\ UNCHANGED <<engVars, identVars, payloadVars, lookupVars>>

\* The text of a later invocation: the same message, or the message with its
\* first line removed.
NextTexts(text) == {text} \cup (IF text = <<>> THEN {} ELSE {Tail(text)})

\* A later invocation that finds the year the previous one left.
ParseAgain_keeps_year ==
    /\ parse_pc \in {"returned", "failed", "raised"}
    /\ mastercal_text' \in NextTexts(mastercal_text)
    /\ line_no' = 0
    /\ year_ctx' = year_ctx
    /\ parsed' = <<>>
    /\ errors' = <<>>
    /\ parse_pc' = "loop"
    /\ UNCHANGED <<strict, today_year>>
    /\ UNCHANGED <<engVars, identVars, payloadVars, lookupVars>>

\* Lines 127-135 again: a later invocation sets its locals anew.
ParseAgain ==
    /\ parse_pc \in {"returned", "failed", "raised"}
    /\ mastercal_text' \in NextTexts(mastercal_text)
    /\ line_no' = 0
    /\ year_ctx' = today_year
    /\ parsed' = <<>>
    /\ errors' = <<>>
    /\ parse_pc' = "loop"
    /\ UNCHANGED <<strict, today_year>>
    /\ UNCHANGED <<engVars, identVars, payloadVars, lookupVars>>

ParseIdle ==
    /\ mastercal_text = <<>>
    /\ strict = FALSE
    /\ today_year = 2025
    /\ line_no = 0
    /\ year_ctx = 2025
    /\ parsed = <<>>
    /\ errors = <<>>
    /\ parse_pc = "idle"

\* Lines 128-135.
ParseInit ==
    /\ mastercal_text \in Texts
    /\ strict \in BOOLEAN
    /\ today_year \in {2024, 2025}
    /\ line_no = 0
    /\ year_ctx = today_year
    /\ parsed = <<>>
    /\ errors = <<>>
    /\ parse_pc = "loop"

(***************************************************************************)
(* _event_body and the readers of a stored item's dates, on their own.     *)
(***************************************************************************)
PayloadDates == {1, 2, 3}

PayloadTimes == {None, <<0, 0>>, <<9, 15>>, <<23, 30>>}

\* ParsedEvent dumps; the parser can emit end_date < start_date and any pair
\* of times.
PayloadEvents ==
    {[summary |-> <<"A">>, start_date |-> sd, start_time |-> st,
      end_date |-> ed, end_time |-> et] :
        sd \in PayloadDates, ed \in PayloadDates, st \in PayloadTimes, et \in PayloadTimes}

\* Line 191: body = _event_body(ev, uid).
Render ==
    /\ pl_body = None
    /\ pl_body' = Some(_event_body(pl_ev, legacy_uid(EngineChat, pl_ev)))
    /\ UNCHANGED <<pl_ev, pl_read>>
    /\ UNCHANGED <<engVars, identVars, parseVars, lookupVars>>

\* Lines 220-221 on the item that holds the payload's start and end.
ReadBack ==
    /\ pl_body # None
    /\ pl_read = None
    /\ pl_read' = <<_item_start_date(pl_body[1]), _item_end_date_inclusive(pl_body[1])>>
    /\ UNCHANGED <<pl_ev, pl_body>>
    /\ UNCHANGED <<engVars, identVars, parseVars, lookupVars>>

PayloadIdle ==
    /\ pl_ev = None
    /\ pl_body = None
    /\ pl_read = None

PayloadInit ==
    /\ pl_ev \in PayloadEvents
    /\ pl_body = None
    /\ pl_read = None

(***************************************************************************)
(* _find_by_icaluid on its own, over the records the service holds under   *)
(* one iCalUID.                                                            *)
(***************************************************************************)
Statuses == {"confirmed", "tentative", "cancelled"}

Matches ==
    UNION {{[k \in 1..n |-> [id |-> k, status |-> f[k]]] : f \in [1..n -> Statuses]} :
              n \in 0..MaxMatches}

\* Lines 66-78: list one page, return the preferred item of it.
Lookup ==
    /\ ~lk_result.done
    /\ lk_result' = [done |-> TRUE, item |-> _find_by_icaluid(Page(lk_matches))]
    /\ UNCHANGED lk_matches
    /\ UNCHANGED <<engVars, identVars, parseVars, payloadVars>>

LookupIdle ==
    /\ lk_matches = <<>>
    /\ lk_result = [done |-> TRUE, item |-> None]

LookupInit ==
    /\ lk_matches \in Matches
    /\ lk_result = [done |-> FALSE, item |-> None]

(***************************************************************************)
(* Specifications                                                          *)
(***************************************************************************)
EngInit ==
    /\ remote \in {{}} \cup {{r} : r \in InitRecords}
    /\ nextId = 2
    /\ events = <<>>
    /\ idx = 1
    /\ pc = "idle"
    /\ pending = NoPending
    /\ legacy_cache = <<>>
    /\ legacy_used = <<>>
    /\ calls = <<>>
    /\ pass = "first"
    /\ prev = [events |-> <<>>, completed |-> FALSE]
    /\ owned = {}
    /\ races = 0

EngIdle ==
    /\ remote = {}
    /\ nextId = 2
    /\ events = <<>>
    /\ idx = 1
    /\ pc = "off"
    /\ pending = NoPending
    /\ legacy_cache = <<>>
    /\ legacy_used = <<>>
    /\ calls = <<>>
    /\ pass = "first"
    /\ prev = [events |-> <<>>, completed |-> FALSE]
    /\ owned = {}
    /\ races = 0

Init == EngInit /\ IdentIdle /\ ParseIdle /\ PayloadIdle /\ LookupIdle

Next ==
    \/ StartPass
    \/ Find
    \/ LegacyFind
    \/ Mutate
    \/ Insert
    \/ InsertConflict
    \/ ReFind
    \/ RemoteFail
    \/ ExtInsert
    \/ ExtPurge

Spec == Init /\ [][Next]_vars

\* The identity resolver over bounded batches.
InitIdent == EngIdle /\ IdentInit /\ ParseIdle /\ PayloadIdle /\ LookupIdle

NextIdent ==
    \/ Resolve
    \/ Reparse

SpecIdent == InitIdent /\ [][NextIdent]_vars

\* parse_mastercal_local over bounded texts.
InitParse == EngIdle /\ IdentIdle /\ ParseInit /\ PayloadIdle /\ LookupIdle

NextParse ==
    \/ ParseLine
    \/ ParseEnd
    \/ ParseAgain

SpecParse == InitParse /\ [][NextParse]_vars

\* _event_body and the date readers over bounded events.
InitPayload == EngIdle /\ IdentIdle /\ ParseIdle /\ PayloadInit /\ LookupIdle

NextPayload ==
    \/ Render
    \/ ReadBack

SpecPayload == InitPayload /\ [][NextPayload]_vars

\* _find_by_icaluid over bounded sets of matching records.
InitLookup == EngIdle /\ IdentIdle /\ ParseIdle /\ PayloadIdle /\ LookupInit

NextLookup == Lookup

SpecLookup == InitLookup /\ [][NextLookup]_vars

(***************************************************************************)
(* Properties of the reconciliation engine                                 *)
(***************************************************************************)
\* The calls of the current pass that are for its k-th event.
CallsOf(k) == {n \in 1..Len(calls) : calls[n].ev = k}

\* A pass that re-runs the previous pass's batch, no other writer involved.
SameBatchRerun == pass = "rerun" /\ prev.completed /\ events = prev.events /\ races = 0

\* C1: idempotence of upsert_events.  When a completed pass is followed by a
\* pass over the same ParsedCalendar with no external write in between, the
\* second pass issues no insert (every event resolves to update or revive) and
\* the number of remote records stays what it was.
C1_SecondPassInsertsNothing ==
    SameBatchRerun =>
        /\ \A n \in 1..Len(calls) : calls[n].op # "insert"
        /\ pc # "insert"

\* C2: no duplicates across repeated runs.  With no external writer, a pass
\* never inserts a record for an event (tenant, normalized summary, start_date,
\* end_date) for which a record inserted or claimed in an earlier pass still
\* exists.
C2_NoDuplicateAcrossPasses ==
    races = 0 =>
        \A n \in 1..Len(calls) :
            (calls[n].op = "insert" /\ calls[n].res = "ok") =>
                ~\E o \in owned :
                    /\ o.pass # pass
                    /\ o.key = EventKey(events[calls[n].ev])
                    /\ \E r \in remote : r.id = o.id

\* An engine step that issues one remote call.
EngineCall == Len(calls') = Len(calls) + 1

LastCall == calls[Len(calls)]

\* C3: the engine never deletes.  Across every remote call of a pass, failed
\* ones included, every record that existed still exists and none becomes
\* cancelled; a call that changes the calendar is an insert, an update or a
\* patch, and the patched record is confirmed.
C3_NeverDeletes ==
    [][EngineCall =>
        /\ \A r \in remote : \E r2 \in remote' :
              r2.id = r.id /\ (r2.status = "cancelled" => r.status = "cancelled")
        /\ remote' # remote =>
              /\ LastCall'.op \in {"insert", "update", "patch"}
              /\ LastCall'.res = "ok"
              /\ LastCall'.op = "patch" =>
                    \A r2 \in remote' : r2.id = LastCall'.id => r2.status = "confirmed"
      ]_vars

\* C3 witness: a pass that revived a cancelled record and then aborted.
C3_Witness ==
    /\ pc = "aborted"
    /\ \E n \in 1..Len(calls) : calls[n].op = "patch" /\ calls[n].res = "ok"

\* Record ids claimed as legacy records by earlier events of this pass.
ClaimedIds ==
    {calls[n].id : n \in {m \in 1..Len(calls) : calls[m].legacy /\ calls[m].ev < idx}}

LegacyRecords == {r \in remote : r.iCalUID = legacy_uid(EngineChat, Ev)}

\* The record's start date is the event's, and its inclusive end date is the
\* event's or absent.
DatesMatch(r, ev) ==
    /\ _item_start_date(r) = Some(ev.start_date)
    /\ _item_end_date_inclusive(r) \in {None, Some(ev.end_date)}

\* The branch for events[idx] has been chosen and its mutation not yet issued,
\* the summary collides and no record holds the current identity.
DecidedNotFound ==
    /\ pc \in {"mutate", "insert"}
    /\ Collide
    /\ ~\E r \in remote : r.iCalUID = Uid

\* C4: legacy claim.  For an event whose summary collides and whose current
\* identity is not found, if a record exists under the legacy identity, was not
\* claimed earlier in this pass and matches the event's dates (end date equal or
\* absent), then the event is applied to that record (update, or revive if
\* cancelled), nothing is inserted for the event, and the record's identifier
\* stays the legacy identity.
C4_LegacyClaim ==
    /\ [](\A L \in (IF DecidedNotFound THEN LegacyRecords ELSE {}) :
            (L.id \notin ClaimedIds /\ DatesMatch(L, Ev)) =>
                /\ pc = "mutate"
                /\ pending.legacy
                /\ pending.id = L.id
                /\ pending.op = IF L.status = "cancelled" THEN "patch" ELSE "update"
                /\ pending.body[1].iCalUID = legacy_uid(EngineChat, Ev))
    /\ [](\A n \in 1..Len(calls) : (calls[n].legacy /\ calls[n].res = "ok") =>
            /\ \A m \in CallsOf(calls[n].ev) : calls[m].op # "insert"
            /\ \E r \in remote :
                  /\ r.id = calls[n].id
                  /\ r.iCalUID = legacy_uid(EngineChat, events[calls[n].ev]))
    /\ [][(pc = "mutate" /\ pending.legacy /\ EngineCall /\ pc' # "aborted") =>
            /\ \E r \in remote' :
                  /\ r.id = pending.id
                  /\ r.status = "confirmed"
                  /\ r.summary = Ev.summary
                  /\ r.start = pending.body[1].start
                  /\ r.end = pending.body[1].end
            /\ Cardinality(remote') = Cardinality(remote)
         ]_vars

\* C4 witness: a completed pass in which a cancelled legacy record was claimed.
C4_Witness ==
    /\ pc = "done"
    /\ \E n \in 1..Len(calls) :
          calls[n].legacy /\ calls[n].res = "ok" /\ calls[n].op = "patch"

\* C5: claim-once.  Within one pass a legacy record is claimed by at most one
\* event; a later event of the same summary, and an event whose dates do not
\* match the legacy record, goes on to an insert under its own current
\* (collision-safe) identity.
C5_ClaimOnce ==
    /\ \A n, m \in 1..Len(calls) :
          (calls[n].legacy /\ calls[m].legacy /\ calls[n].id = calls[m].id) =>
              calls[n].ev = calls[m].ev
    /\ (pc = "mutate" /\ pending.legacy) => pending.id \notin ClaimedIds
    /\ (DecidedNotFound /\ \A L \in LegacyRecords :
                              L.id \in ClaimedIds \/ ~DatesMatch(L, Ev)) =>
          /\ pc = "insert"
          /\ pending.op = "insert"
          /\ pending.body[1].iCalUID = event_uid(EngineChat, Ev, TRUE)
          /\ pending.body[1].iCalUID # legacy_uid(EngineChat, Ev)

\* C5 witness: one event claimed the legacy record and a later event of the
\* same summary was inserted.
C5_Witness ==
    \E n, m \in 1..Len(calls) :
        /\ calls[n].legacy /\ calls[n].res = "ok"
        /\ calls[m].op = "insert" /\ calls[m].res = "ok"
        /\ calls[m].ev > calls[n].ev
        /\ _norm_summary(events[calls[m].ev].summary)
              = _norm_summary(events[calls[n].ev].summary)

\* What follows a rejected insert (call n of the pass, for event k): one lookup
\* by the same identity; found, then the update or the revive-patch of the
\* record found and, once that has returned, the next event; not found, then
\* the pass is over with the conflict raised.
RetryAfterConflict(n) ==
    LET k == calls[n].ev
        held == {r \in remote : r.iCalUID = calls[n].uid}
    IN  /\ calls[n].uid = event_uid(EngineChat, events[k],
                              _norm_summary(events[k].summary) \in collision_summaries(events))
        /\ Cardinality({m \in CallsOf(k) : calls[m].op = "insert"}) = 1
        /\ Cardinality({m \in CallsOf(k) : m > n /\ calls[m].op = "list"}) <= 1
        /\ IF n = Len(calls) THEN pc = "refind" /\ idx = k
           ELSE /\ calls[n + 1].op = "list"
                /\ calls[n + 1].ev = k
                /\ calls[n + 1].uid = calls[n].uid
                /\ calls[n + 1].res \in {"none", "error"} =>
                      n + 1 = Len(calls) /\ pc = "aborted" /\ idx = k
                /\ calls[n + 1].res = "found" =>
                      IF n + 1 = Len(calls)
                      THEN /\ pc = "mutate" /\ idx = k
                           /\ \E r \in held :
                                 /\ pending.id = r.id
                                 /\ pending.op = IF r.status = "cancelled"
                                                 THEN "patch" ELSE "update"
                           /\ pending.body[1] = _event_body(events[k], calls[n].uid)
                      ELSE /\ calls[n + 2].ev = k
                           /\ calls[n + 2].op \in {"update", "patch"}
                           /\ n + 2 < Len(calls) =>
                                 calls[n + 2].res = "ok" /\ calls[n + 3].ev = k + 1
                           /\ (n + 2 = Len(calls) /\ calls[n + 2].res = "ok") =>
                                 IF k < Len(events) THEN pc = "find" /\ idx = k + 1
                                 ELSE pc = "done"

\* C8: conflict retry on insert.  After an insert is rejected with 409 the
\* engine looks the current identity up again exactly once; a record found is
\* updated (revived if cancelled) and the pass goes on with the next event;
\* none found, the conflict is raised and no later event is processed.  The
\* insert is never attempted again.
C8_ConflictRetry ==
    \A n \in 1..Len(calls) :
        (calls[n].op = "insert" /\ calls[n].res = "conflict") => RetryAfterConflict(n)

\* C8 witness: a conflict, a second lookup that found the record, its update,
\* and the next event under way.
C8_Witness ==
    \E n \in 1..Len(calls) :
        /\ calls[n].op = "insert" /\ calls[n].res = "conflict"
        /\ n + 3 <= Len(calls)
        /\ calls[n + 1].res = "found"
        /\ calls[n + 2].op = "update" /\ calls[n + 2].res = "ok"

\* C9: a remote failure that is not a 409 on insert aborts the batch.  The
\* failed call is the last call of the pass: no retry, no call for this or a
\* later event; the failure leaves the calendar as the earlier events' calls
\* made it; once aborted the pass does nothing more.
C9_FailureAborts ==
    /\ [](\A n \in 1..Len(calls) :
            calls[n].res = "error" =>
                n = Len(calls) /\ pc = "aborted" /\ idx = calls[n].ev)
    /\ [][(EngineCall /\ LastCall'.res = "error") =>
            /\ remote' = remote
            /\ pc' = "aborted"
            /\ idx' = idx
         ]_vars
    /\ [][pc = "aborted" => UNCHANGED <<remote, calls, pc>>]_vars

\* C9 witness: an aborted pass whose earlier insert is still in the calendar.
C9_Witness ==
    /\ pc = "aborted"
    /\ LastCall.res = "error"
    /\ \E n \in 1..Len(calls) :
          /\ calls[n].op = "insert" /\ calls[n].res = "ok"
          /\ \E r \in remote : r.id = calls[n].id

(***************************************************************************)
(* Identity resolver properties (SpecIdent)                                *)
(***************************************************************************)
\* A title as a reader compares it: its words, in lower case.
RECURSIVE WordLen(_)
WordLen(s) == IF s = <<>> \/ IsSpace(Head(s)) THEN 0 ELSE 1 + WordLen(Tail(s))

RECURSIVE Words(_)
Words(s) ==
    IF s = <<>> THEN <<>>
    ELSE IF IsSpace(Head(s)) THEN Words(Tail(s))
    ELSE LET n == WordLen(s)
         IN  <<[k \in 1..n |-> Lower(s[k])]>> \o Words(SubSeq(s, n + 1, Len(s)))

SameTitle(e1, e2) == Words(e1.summary) = Words(e2.summary)

DateRange(e) == <<e.start_date, e.end_date>>

\* The title of event k occurs exactly once in the batch evs.
OnceIn(evs, k) == \A j \in 1..Len(evs) : j # k => ~SameTitle(evs[j], evs[k])

\* C6: collision-awareness of event_uid.  Two events of one batch with the
\* same normalized summary and different (start_date, end_date) get current
\* identities that differ from each other and from the legacy identity.
C6_CollisionAware ==
    id_uids # <<>> =>
        \A j, k \in 1..Len(id_events) :
            (j # k /\ SameTitle(id_events[j], id_events[k])
                   /\ DateRange(id_events[j]) # DateRange(id_events[k]))
            => /\ id_uids[j] # id_uids[k]
               /\ id_uids[j] # legacy_uid(id_chat, id_events[j])

\* C6 witness: a resolved batch holding the same title in two spellings on
\* different date ranges.
C6_Witness ==
    /\ id_uids # <<>>
    /\ \E j, k \in 1..Len(id_events) :
        /\ j # k
        /\ SameTitle(id_events[j], id_events[k])
        /\ id_events[j].summary # id_events[k].summary
        /\ DateRange(id_events[j]) # DateRange(id_events[k])
        /\ id_events[j].start_date = id_events[k].start_date

\* C7: identity stability.  An event whose normalized summary occurs exactly
\* once in its batch gets the legacy identity, and gets the same identity
\* again when its line is parsed again, whatever its spelling and its
\* start_date and end_date then are.
C7_IdentityStable ==
    id_uids # <<>> =>
        \A k \in 1..Len(id_events) :
            OnceIn(id_events, k) =>
                /\ id_uids[k] = legacy_uid(id_chat, id_events[k])
                /\ \A j \in 1..Len(id_prev.events) :
                    (OnceIn(id_prev.events, j) /\ SameTitle(id_prev.events[j], id_events[k]))
                    => id_prev.uids[j] = id_uids[k]

\* C7 witness: a non-colliding event was parsed again with another spelling
\* and other dates, and resolved again.
C7_Witness ==
    /\ id_prev.events # <<>>
    /\ \E k \in 1..Len(id_events) :
        /\ OnceIn(id_events, k)
        /\ OnceIn(id_prev.events, k)
        /\ id_prev.events[k].summary # id_events[k].summary
        /\ id_prev.events[k].start_date # id_events[k].start_date
        /\ id_prev.events[k].end_date # id_events[k].end_date

(***************************************************************************)
(* Parser properties (SpecParse)                                           *)
(***************************************************************************)
ParseDone == parse_pc \in {"returned", "failed", "raised"}

\* The ambient year in force when line i is read.
RECURSIVE YearAt(_)
YearAt(i) ==
    IF i = 1 THEN today_year
    ELSE LineParse(mastercal_text[i - 1], YearAt(i - 1)).year

KindAt(i) == LineParse(mastercal_text[i], YearAt(i)).kind

\* Lines that fail to parse: bad date or month, bad time, empty summary,
\* unrecognized shape.
FailingLines == {i \in 1..Len(mastercal_text) : KindAt(i) \in {"diag", "raise"}}

ValidLines == {i \in 1..Len(mastercal_text) : KindAt(i) = "event"}

\* C10: strict versus lenient policy of parse_mastercal_local.  In strict
\* mode the first failing line stops the parse (no later line is examined,
\* exactly one diagnostic is collected) and the operation fails returning no
\* events; in lenient mode the text yields one event per valid line and one
\* diagnostic per failing line, and the operation succeeds.
C10_StrictVersusLenient ==
    ParseDone =>
        /\ (strict /\ FailingLines # {}) =>
            /\ parse_pc = "failed"
            /\ \A i \in FailingLines : line_no <= i
            /\ Len(errors) = 1
        /\ ~strict =>
            /\ parse_pc = "returned"
            /\ Len(parsed) = Cardinality(ValidLines)
            /\ Len(errors) = Cardinality(FailingLines)

\* A time lexeme whose hour or minute is out of range once am/pm is applied.
OutOfRange(tok) ==
    /\ IsTime(tok)
    /\ \/ (IF tok.n = 12 THEN 0 ELSE tok.n) + (IF tok.ap = "pm" THEN 12 ELSE 0) > 23
       \/ tok.mi > 59

\* Line i is a date or date-range line that carries an out-of-range time.
BadTimeLine(i) ==
    LET l == mastercal_text[i]
    IN  /\ IsDateLine(l) \/ IsRangeLine(l)
        /\ \E k \in 1..Len(l) : OutOfRange(l[k])

\* C11: bad time tokens are recoverable diagnostics.  In lenient mode, once a
\* dated line with an out-of-range time token has been read, the parse has
\* not raised, the line is among the diagnostics, and it produced no event.
C11_BadTimeIsDiagnostic ==
    (~strict /\ line_no >= 1 /\ BadTimeLine(line_no)) =>
        /\ parse_pc # "raised"
        /\ \E n \in 1..Len(errors) : errors[n] = line_no
        /\ Len(parsed) + Len(errors) <= line_no

\* The text of a dated line after its date(s) and weekday parenthetical.
RestOf(l) ==
    IF IsRangeLine(l) THEN SubSeq(l, 6, Len(l))
    ELSE IF Len(l) >= 3 /\ l[3].t = "paren" THEN SubSeq(l, 4, Len(l))
    ELSE SubSeq(l, 3, Len(l))

\* The last line read was a dated line and was accepted as an event.
Accepted ==
    /\ line_no >= 1
    /\ IsDateLine(mastercal_text[line_no]) \/ IsRangeLine(mastercal_text[line_no])
    /\ parse_pc # "raised"
    /\ \A n \in 1..Len(errors) : errors[n] # line_no

\* 12-hour clock reading of hour n, minutes mi (-1: none), marker ap.
Clock(n, mi, ap) == <<(n % 12) + (IF ap = "pm" THEN 12 ELSE 0), IF mi = -1 THEN 0 ELSE mi>>

\* rest begins with a range token T1-T2 of which at least one side is marked.
RangeToken(rest) ==
    /\ Len(rest) >= 3
    /\ rest[1].t = "num" /\ rest[2].t = "dash" /\ rest[3].t = "num"
    /\ rest[1].ap # "" \/ rest[3].ap # ""
    /\ ~OutOfRange(rest[1]) /\ ~OutOfRange(rest[3])

\* C12: time-range inference.  A range token in which one side omits its
\* am/pm marker is read as a range, the unmarked side taking the other
\* side's marker ("2pm-6pm Meeting" and "2-6pm Meeting" both give 14:00,
\* 18:00 and summary "Meeting"); a single token ("8am Meeting") gives the
\* start time and no end time.
C12_TimeRangeInference ==
    Accepted =>
        LET rest == RestOf(mastercal_text[line_no])
            e == parsed[Len(parsed)]
        IN  /\ Len(parsed) > 0
            /\ RangeToken(rest) =>
                LET m1 == IF rest[1].ap # "" THEN rest[1].ap ELSE rest[3].ap
                    m2 == IF rest[3].ap # "" THEN rest[3].ap ELSE rest[1].ap
                IN  /\ e.start_time = Clock(rest[1].n, rest[1].mi, m1)
                    /\ e.end_time = Clock(rest[3].n, rest[3].mi, m2)
                    /\ e.summary = SubSeq(rest, 4, Len(rest))
            /\ (Len(rest) >= 2 /\ IsTime(rest[1]) /\ rest[2].t # "dash") =>
                /\ e.start_time = Clock(rest[1].n, rest[1].mi, rest[1].ap)
                /\ e.end_time = None
                /\ e.summary = Tail(rest)

\* C13: every event of the returned ParsedCalendar has end_date >= start_date.
C13_EndNotBeforeStart ==
    parse_pc = "returned" =>
        \A n \in 1..Len(parsed) : parsed[n].end_date >= parsed[n].start_date

(***************************************************************************)
(* Payload properties (SpecPayload)                                        *)
(***************************************************************************)
DateOnly(d) == [date |-> <<d>>, dateTime |-> <<>>]

Timestamp(ts) == [date |-> <<>>, dateTime |-> <<ts>>]

\* Minutes since day 0 of a timestamp <<day, h, m>>.
Minutes(ts) == ts[1] * 1440 + ts[2] * 60 + ts[3]

\* C14: all-day payload exclusivity and round trip.  For an event with no
\* start_time the payload's start is the date start_date and its end the
\* date end_date + 1, and the date readers applied to the payload return
\* exactly start_date and end_date.
C14_AllDayRoundTrip ==
    (pl_body # <<>> /\ pl_ev.start_time = <<>>) =>
        /\ pl_body[1].start = DateOnly(pl_ev.start_date)
        /\ pl_body[1].end = DateOnly(pl_ev.end_date + 1)
        /\ pl_read # <<>> => pl_read = << <<pl_ev.start_date>>, <<pl_ev.end_date>> >>

\* C14 witness: a multi-day all-day event was rendered and read back.
C14_Witness ==
    /\ pl_read # <<>>
    /\ pl_ev.start_time = <<>>
    /\ pl_ev.start_date < pl_ev.end_date

\* C17: timed payload.  For an event with start_time, start is the timestamp
\* start_date at start_time; end is exactly one hour after start when
\* end_time is absent, and end_date at end_time otherwise; both are
\* timestamps, never date-only values.
C17_TimedPayload ==
    (pl_body # <<>> /\ pl_ev.start_time # <<>>) =>
        LET b == pl_body[1]
            st == <<pl_ev.start_date, pl_ev.start_time[1], pl_ev.start_time[2]>>
        IN  /\ b.start = Timestamp(st)
            /\ b.end.date = <<>> /\ b.end.dateTime # <<>>
            /\ pl_ev.end_time = <<>> =>
                /\ Minutes(b.end.dateTime[1]) = Minutes(st) + 60
                /\ b.end.dateTime[1][2] \in 0..23
            /\ pl_ev.end_time # <<>> =>
                b.end = Timestamp(<<pl_ev.end_date, pl_ev.end_time[1], pl_ev.end_time[2]>>)

\* C17 witness: a rendered timed event without end_time whose hour after the
\* start falls on the next day.
C17_Witness ==
    /\ pl_body # <<>>
    /\ pl_ev.start_time = <<23, 30>>
    /\ pl_ev.end_time = <<>>

(***************************************************************************)
(* Lookup properties (SpecLookup)                                          *)
(***************************************************************************)
\* C18: lookup preference of _find_by_icaluid.  When several records share
\* the looked-up identity the lookup returns a non-cancelled record whenever
\* at least one of them is non-cancelled, a cancelled one only when all are
\* cancelled, and nothing only when there is no match.
C18_LookupPreference ==
    lk_result.done =>
        LET live == {k \in 1..Len(lk_matches) : lk_matches[k].status # "cancelled"}
        IN  /\ lk_result.item = <<>> <=> lk_matches = <<>>
            /\ lk_result.item # <<>> =>
                /\ \E k \in 1..Len(lk_matches) : lk_matches[k] = lk_result.item[1]
                /\ lk_result.item[1].status = "cancelled" <=> live = {}

(***************************************************************************)
(* Ambient year (SpecParse)                                                *)
(***************************************************************************)
\* The year-marker lines before line i.
MarkersBefore(i) == {j \in 1..(i - 1) : IsYearLine(mastercal_text[j])}

\* The year an event of line i must carry.
ExpectedYear(i) ==
    IF MarkersBefore(i) = {} THEN today_year
    ELSE mastercal_text[CHOOSE j \in MarkersBefore(i) : \A k \in MarkersBefore(i) : k <= j][1].n

\* Day ordinal d lies in year y.
InYear(d, y) == Ordinal(y, 1, 1) <= d /\ d < Ordinal(y + 1, 1, 1)

\* C15: ambient year threading.  Every emitted event's start_date and
\* end_date lie in the year of the most recent year marker before its line,
\* or in the current year when there is none; a year marker sets the year
\* and produces no event; no other line changes the year; a later
\* invocation starts from the current year again.
C15_YearThreading ==
    [][ /\ Len(parsed') > Len(parsed) =>
            /\ InYear(parsed'[Len(parsed')].start_date, ExpectedYear(line_no'))
            /\ InYear(parsed'[Len(parsed')].end_date, ExpectedYear(line_no'))
        /\ line_no' = line_no + 1 =>
            IF IsYearLine(mastercal_text[line_no'])
            THEN parsed' = parsed /\ errors' = errors
                 /\ year_ctx' = mastercal_text[line_no'][1].n
            ELSE year_ctx' = year_ctx
        /\ line_no' = 0 => year_ctx' = today_year'
      ]_vars

\* C15 witness: an event emitted after two different year markers, neither
\* last one being the current year.
C15_Witness ==
    /\ line_no = 3
    /\ IsYearLine(mastercal_text[1]) /\ IsYearLine(mastercal_text[2])
    /\ mastercal_text[1][1].n # mastercal_text[2][1].n
    /\ mastercal_text[2][1].n # today_year
    /\ Len(parsed) = 1

(***************************************************************************)
(* Engine protocol properties (Spec)                                       *)
(***************************************************************************)
\* The position in calls of the first call made for event k.
FirstCallOf(k) == CHOOSE n \in CallsOf(k) : \A m \in CallsOf(k) : n <= m

\* Event k's lookup by current identity returned a record.
FoundByCurrent(k) ==
    /\ CallsOf(k) # {}
    /\ calls[FirstCallOf(k)].op = "list"
    /\ calls[FirstCallOf(k)].res = "found"

RecordOf(recs, id) == CHOOSE r \in recs : r.id = id

\* C16: found-by-current-identity branch.  When the lookup by current
\* identity returns a record, nothing is inserted and no legacy lookup is
\* made for that event; a cancelled record is patched with the event's
\* fields and status confirmed, by a patch that does not carry the
\* identifier, which stays as it was; a record that is not cancelled is
\* updated in place on the same record id.
C16_FoundBranch ==
    /\ [](\A k \in 1..Len(events) :
            FoundByCurrent(k) =>
                \A n \in CallsOf(k) :
                    /\ calls[n].op # "insert"
                    /\ calls[n].op = "list" => n = FirstCallOf(k)
                    /\ ~calls[n].legacy)
    /\ [][(pc = "find" /\ pc' = "mutate" /\ calls'[Len(calls')].res = "found") =>
            /\ ~pending'.legacy
            /\ \E r \in remote :
                /\ r.id = pending'.id
                /\ r.iCalUID = event_uid(EngineChat, Ev, Collide)
                /\ pending'.op = (IF r.status = "cancelled" THEN "patch" ELSE "update")
         ]_vars
    /\ [][(pc = "mutate" /\ ~pending.legacy /\ pc' # "aborted") =>
            LET r == RecordOf(remote, pending.id)
                r2 == RecordOf(remote', pending.id)
            IN  /\ {x.id : x \in remote'} = {x.id : x \in remote}
                /\ \A x \in remote : x.id # pending.id => x \in remote'
                /\ calls'[Len(calls')].op = pending.op
                /\ calls'[Len(calls')].id = pending.id
                /\ r2.iCalUID = r.iCalUID
                /\ r2.summary = Ev.summary
                /\ r2.start = Body.start /\ r2.end = Body.end
                /\ pending.op = "patch" =>
                    /\ r.status = "cancelled" /\ r2.status = "confirmed"
                    /\ "iCalUID" \notin DOMAIN _patch_revive(pending.body[1])
                /\ pending.op = "update" => r2.status = r.status /\ r.status # "cancelled"
         ]_vars

\* C16 witness: with no other writer, the lookup by current identity found a
\* cancelled record and the revive-patch went through.
C16_Witness ==
    /\ races = 0
    /\ \E n \in 2..Len(calls) :
        /\ calls[n].op = "patch" /\ calls[n].res = "ok" /\ ~calls[n].legacy
        /\ calls[n - 1].op = "list" /\ calls[n - 1].res = "found"
        /\ calls[n - 1].ev = calls[n].ev
        /\ RecordOf(remote, calls[n].id).status = "confirmed"

\* The successful mutations among the calls made for event k.
MutationsOf(k) ==
    {n \in CallsOf(k) : calls[n].op \in {"insert", "update", "patch"} /\ calls[n].res = "ok"}

\* The current identity of event k of the batch.
UidOf(k) ==
    event_uid(EngineChat, events[k],
              _norm_summary(events[k].summary) \in collision_summaries(events))

\* C19: sequential per-event protocol.  Calls are made for the events in
\* batch order, one event at a time; an event's first call is the lookup by
\* its current identity; no call is made for an event before the previous
\* event's mutation has returned; no event is mutated twice, and in a
\* completed pass every event has exactly one successful mutation.
C19_SequentialProtocol ==
    /\ \A m, n \in 1..Len(calls) : m < n => calls[m].ev <= calls[n].ev
    /\ \A n \in 1..Len(calls) : calls[n].ev \in 1..Len(events) /\ calls[n].ev <= idx
    /\ \A k \in 1..Len(events) :
        /\ CallsOf(k) # {} =>
            /\ calls[FirstCallOf(k)].op = "list"
            /\ calls[FirstCallOf(k)].uid = UidOf(k)
            /\ k > 1 => \E m \in MutationsOf(k - 1) : m < FirstCallOf(k)
        /\ Cardinality(MutationsOf(k)) <= 1
        /\ \A m \in MutationsOf(k) : \A n \in CallsOf(k) : n <= m
        /\ pc = "done" => Cardinality(MutationsOf(k)) = 1

\* C19 witness: a completed pass over two events, one inserted after a
\* conflict-free lookup and one updated or revived.
C19_Witness ==
    /\ pc = "done"
    /\ Len(events) = 2
    /\ \E m, n \in 1..Len(calls) :
        /\ calls[m].ev # calls[n].ev
        /\ calls[m].op = "insert" /\ calls[m].res = "ok"
        /\ calls[n].op \in {"update", "patch"} /\ calls[n].res = "ok"

\* A lookup by legacy identity: a list call that is neither the event's
\* first call nor the second lookup after a 409.
LegacyLookup(n) ==
    /\ calls[n].op = "list"
    /\ n # FirstCallOf(calls[n].ev)
    /\ calls[n - 1].res # "conflict"

NormOf(k) == Words(events[k].summary)

\* C20: legacy lookup caching.  Within one pass the lookup by legacy
\* identity is issued at most once per normalized summary, also when it
\* found nothing, and only for an event whose summary collides and whose
\* current identity was not found; a non-colliding event never triggers it.
C20_LegacyLookupCached ==
    \A n \in 1..Len(calls) :
        LegacyLookup(n) =>
            LET k == calls[n].ev
            IN  /\ calls[n].uid = legacy_uid(EngineChat, events[k])
                /\ \E j \in 1..Len(events) : j # k /\ NormOf(j) = NormOf(k)
                /\ calls[FirstCallOf(k)].res = "none"
                /\ n = FirstCallOf(k) + 1
                /\ \A m \in 1..Len(calls) :
                    (LegacyLookup(m) /\ m # n) => NormOf(calls[m].ev) # NormOf(k)

\* C20 witness: a legacy lookup found nothing, and a later event with the
\* same summary, not found under its current identity either, went to insert
\* without a second legacy lookup.
C20_Witness ==
    \E n \in 1..Len(calls) :
        /\ LegacyLookup(n)
        /\ calls[n].res = "none"
        /\ \E k \in 1..Len(events) :
            /\ k > calls[n].ev
            /\ NormOf(k) = NormOf(calls[n].ev)
            /\ CallsOf(k) # {}
            /\ calls[FirstCallOf(k)].res = "none"
            /\ \E m \in CallsOf(k) : calls[m].op = "insert"

\* Event k was legacy-claimed in this pass.
LegacyClaimed(k) == \E n \in CallsOf(k) : calls[n].legacy /\ calls[n].res = "ok"

\* C21: post-pass coverage.  After a pass completes without error and with
\* no external writer, every event of the batch has a non-cancelled record
\* under its current identity or, if it was legacy-claimed, under its legacy
\* identity.
C21_PostPassCoverage ==
    (pc = "done" /\ races = 0) =>
        \A k \in 1..Len(events) :
            \E r \in remote :
                /\ r.status # "cancelled"
                /\ \/ r.iCalUID = UidOf(k)
                   \/ LegacyClaimed(k) /\ r.iCalUID = legacy_uid(EngineChat, events[k])

\* C21 witness: a completed pass, with no other writer, in which one event
\* claimed a cancelled legacy record and the other was inserted.
C21_Witness ==
    /\ pc = "done"
    /\ races = 0
    /\ Len(events) = 2
    /\ \E n \in 1..Len(calls) : calls[n].legacy /\ calls[n].op = "patch" /\ calls[n].res = "ok"
    /\ \E n \in 1..Len(calls) : calls[n].op = "insert" /\ calls[n].res = "ok"

(***************************************************************************)
(* Parser output rendered as payloads (SpecParse)                          *)
(***************************************************************************)
\* The payload upsert_events builds for event n of the returned calendar.
PayloadOf(n) ==
    _event_body([summary |-> parsed[n].summary,
                 start_date |-> parsed[n].start_date, start_time |-> parsed[n].start_time,
                 end_date |-> parsed[n].end_date, end_time |-> parsed[n].end_time],
                <<EngineChat, <<>>>>)

\* The payload's end lies strictly after its start.
EndAfterStart(b) ==
    IF b.start.date # <<>>
    THEN b.end.date # <<>> /\ b.end.date[1] > b.start.date[1]
    ELSE /\ b.start.dateTime # <<>> /\ b.end.dateTime # <<>>
         /\ Minutes(b.end.dateTime[1]) > Minutes(b.start.dateTime[1])

\* C22: every payload built by _event_body from an event the parser returned
\* has its end strictly after its start.
C22_PayloadEndAfterStart ==
    parse_pc = "returned" => \A n \in 1..Len(parsed) : EndAfterStart(PayloadOf(n))

(***************************************************************************)
(* Timed records read back (SpecPayload)                                   *)
(***************************************************************************)
\* The record the service holds after an insert of the rendered payload.
StoredRecord ==
    [id |-> 1, iCalUID |-> pl_body[1].iCalUID, status |-> "confirmed",
     summary |-> pl_body[1].summary, start |-> pl_body[1].start, end |-> pl_body[1].end]

\* C23: a timed record written by the engine stays claimable by its own
\* event.  For an event with start_time set, the date readers applied to its
\* payload return the event's start_date and end_date, and the record
\* passes the legacy-claim date match for that event.
C23_TimedRecordClaimable ==
    (pl_read # <<>> /\ pl_ev.start_time # <<>>) =>
        /\ pl_read = << <<pl_ev.start_date>>, <<pl_ev.end_date>> >>
        /\ LegacyMatches(StoredRecord, {}, pl_ev)

=============================================================================
